---- MODULE Spec2Model ----
(***************************************************************************)
(* Model of apps/desktop/src-tauri/icons/generate_icons.py: the icon       *)
(* renderer create_icon, the ICO packer create_ico_file and the driver     *)
(* main.                                                                   *)
(*                                                                         *)
(* A canvas is held as its side and the list of drawing operations issued  *)
(* on it, in order; the colour of a pixel is the ink of the last operation *)
(* that covers it (ImageDraw overwrites, it does not blend), or the        *)
(* background of Image.new when none does.                                 *)
(*                                                                         *)
(* Every number handed to a drawing operation is held in HALVES (value     *)
(* times two), so that the one float of the script, keyhole_radius * 1.5,  *)
(* keeps its exact value: an argument is integral iff its half-count is    *)
(* even.                                                                   *)
(***************************************************************************)
EXTENDS Integers, Sequences, FiniteSets, TLC

VARIABLES entry, call, pc, step, k, idx, img, icons, fs, dirExists,
          writes, out, failed, run

vars == <<entry, call, pc, step, k, idx, img, icons, fs, dirExists,
          writes, out, failed, run>>

(***************************************************************************)
(* Bounds of the model.                                                    *)
(***************************************************************************)
\* create_icon is entered directly with every size 1..MaxSize
MaxSize == 48
\* create_ico_file is entered directly with every sequence of at most MaxLen sizes
MaxLen == 3
\* the driver is run up to MaxRuns times over the same file system
MaxRuns == 2

(***************************************************************************)
(* Numbers as Python holds them, in halves.                                *)
(***************************************************************************)
\* an int, in halves
H(n) == 2 * n

\* n * 1.5 for an int n, in halves (exact in binary floating point)
Times1_5(n) == 3 * n

IsIntegral(v) == v % 2 = 0

\* the C cast (int) the rasteriser applies to a coordinate: truncation to zero
CInt(v) == IF v >= 0 THEN v \div 2 ELSE -((-v) \div 2)

Max(a, b) == IF a >= b THEN a ELSE b

SetMax(S) == CHOOSE m \in S : \A n \in S : n <= m

(***************************************************************************)
(* Palette and geometry of create_icon (lines 17-78).                      *)
(***************************************************************************)
bg_color == <<52, 115, 201>>

white == <<255, 255, 255>>

shadow_fill == <<30, 65, 120, 100>>

padding(size) == size \div 10

box_size(size) == size - 2 * padding(size)

corner_radius(size) == box_size(size) \div 5

shadow_padding(size) == padding(size) + size \div 40

shackle_width(size) == box_size(size) \div 2

shackle_height(size) == box_size(size) \div 2

shackle_x(size) == padding(size) + box_size(size) \div 2 - shackle_width(size) \div 2

shackle_y(size) == padding(size) - box_size(size) \div 10

shackle_thickness(size) == Max(2, size \div 25)

arc_bbox(size) ==
    << H(shackle_x(size)),
       H(shackle_y(size) - shackle_height(size) \div 2),
       H(shackle_x(size) + shackle_width(size)),
       H(shackle_y(size) + shackle_height(size) \div 2) >>

center_x(size) == size \div 2

\* faulty variant: the keyhole pushed a fifth of the side below the middle
center_y_low(size) == size \div 2 + size \div 5

center_y(size) == size \div 2 + size \div 20

keyhole_radius(size) == size \div 12

stem_width(size) == keyhole_radius(size)

\* faulty variant: the stem height floored to an int (keyhole_radius * 3 // 2)
stem_height_floored(size) == H((keyhole_radius(size) * 3) \div 2)

\* keyhole_radius * 1.5: a float, in halves
stem_height(size) == Times1_5(keyhole_radius(size))

(***************************************************************************)
(* A drawing operation as ImageDraw receives it.                           *)
(***************************************************************************)
Op(kind, xy, radius, width, fill) ==
    [kind |-> kind, xy |-> xy, radius |-> radius, width |-> width, fill |-> fill]

\* the five drawing calls of create_icon, by name
IconShape(size, name) ==
    CASE name = "shadow" ->
           Op("rounded_rectangle",
              << H(shadow_padding(size)), H(shadow_padding(size)),
                 H(shadow_padding(size) + box_size(size)),
                 H(shadow_padding(size) + box_size(size)) >>,
              H(corner_radius(size)), H(0), shadow_fill)
      [] name = "body" ->
           Op("rounded_rectangle",
              << H(padding(size)), H(padding(size)),
                 H(padding(size) + box_size(size)),
                 H(padding(size) + box_size(size)) >>,
              H(corner_radius(size)), H(0), bg_color)
      [] name = "shackle" ->
           Op("arc", arc_bbox(size), H(0), H(shackle_thickness(size)), white)
      [] name = "keyhole" ->
           Op("ellipse",
              << H(center_x(size) - keyhole_radius(size)),
                 H(center_y(size) - keyhole_radius(size)),
                 H(center_x(size) + keyhole_radius(size)),
                 H(center_y(size) + keyhole_radius(size)) >>,
              H(0), H(0), white)
      [] name = "stem" ->
           Op("rectangle",
              << H(center_x(size) - stem_width(size) \div 2),
                 H(center_y(size)),
                 H(center_x(size) + stem_width(size) \div 2),
                 H(center_y(size)) + stem_height(size) >>,
              H(0), H(0), white)

\* faulty variant: the shadow drawn after the badge
DrawOrderBodyFirst == << "body", "shadow", "shackle", "keyhole", "stem" >>

\* the order in which create_icon issues them
DrawOrder == << "shadow", "body", "shackle", "keyhole", "stem" >>

\* the n-th drawing call of create_icon(size, ...)
IconDrawOp(size, n) == IconShape(size, DrawOrder[n])

(***************************************************************************)
(* Palette and geometry of the loop body of create_ico_file (lines 95-151),*)
(* which repeats the renderer's code instead of calling it.                *)
(***************************************************************************)
ico_bg_color == <<52, 115, 201>>

ico_white == <<255, 255, 255>>

ico_shadow_fill == <<30, 65, 120, 100>>

ico_padding(size) == size \div 10

ico_box_size(size) == size - 2 * ico_padding(size)

ico_corner_radius(size) == ico_box_size(size) \div 5

\* faulty variant: the packer's shadow loses its offset
ico_shadow_padding_flat(size) == ico_padding(size)

ico_shadow_padding(size) == ico_padding(size) + size \div 40

ico_shackle_width(size) == ico_box_size(size) \div 2

ico_shackle_height(size) == ico_box_size(size) \div 2

ico_shackle_x(size) ==
    ico_padding(size) + ico_box_size(size) \div 2 - ico_shackle_width(size) \div 2

ico_shackle_y(size) == ico_padding(size) - ico_box_size(size) \div 10

ico_shackle_thickness(size) == Max(2, size \div 25)

ico_arc_bbox(size) ==
    << H(ico_shackle_x(size)),
       H(ico_shackle_y(size) - ico_shackle_height(size) \div 2),
       H(ico_shackle_x(size) + ico_shackle_width(size)),
       H(ico_shackle_y(size) + ico_shackle_height(size) \div 2) >>

ico_center_x(size) == size \div 2

ico_center_y(size) == size \div 2 + size \div 20

ico_keyhole_radius(size) == size \div 12

ico_stem_width(size) == ico_keyhole_radius(size)

ico_stem_height(size) == Times1_5(ico_keyhole_radius(size))

IcoShape(size, name) ==
    CASE name = "shadow" ->
           Op("rounded_rectangle",
              << H(ico_shadow_padding(size)), H(ico_shadow_padding(size)),
                 H(ico_shadow_padding(size) + ico_box_size(size)),
                 H(ico_shadow_padding(size) + ico_box_size(size)) >>,
              H(ico_corner_radius(size)), H(0), ico_shadow_fill)
      [] name = "body" ->
           Op("rounded_rectangle",
              << H(ico_padding(size)), H(ico_padding(size)),
                 H(ico_padding(size) + ico_box_size(size)),
                 H(ico_padding(size) + ico_box_size(size)) >>,
              H(ico_corner_radius(size)), H(0), ico_bg_color)
      [] name = "shackle" ->
           Op("arc", ico_arc_bbox(size), H(0), H(ico_shackle_thickness(size)),
              ico_white)
      [] name = "keyhole" ->
           Op("ellipse",
              << H(ico_center_x(size) - ico_keyhole_radius(size)),
                 H(ico_center_y(size) - ico_keyhole_radius(size)),
                 H(ico_center_x(size) + ico_keyhole_radius(size)),
                 H(ico_center_y(size) + ico_keyhole_radius(size)) >>,
              H(0), H(0), ico_white)
      [] name = "stem" ->
           Op("rectangle",
              << H(ico_center_x(size) - ico_stem_width(size) \div 2),
                 H(ico_center_y(size)),
                 H(ico_center_x(size) + ico_stem_width(size) \div 2),
                 H(ico_center_y(size)) + ico_stem_height(size) >>,
              H(0), H(0), ico_white)

IcoDrawOrder == << "shadow", "body", "shackle", "keyhole", "stem" >>

\* the n-th drawing call of one iteration of create_ico_file's loop
IcoDrawOp(size, n) == IcoShape(size, IcoDrawOrder[n])

\* number of drawing calls on one canvas
NumDraws == Len(DrawOrder)

(***************************************************************************)
(* Canvases and pixels.                                                    *)
(*                                                                         *)
(* The shapes are those the ImageDraw primitives are defined to fill: the  *)
(* inclusive bounding box, the ellipse inscribed in it, the box less its   *)
(* rounded corners, the lower half of a ring.  Which pixels of a curved    *)
(* outline the rasteriser rounds in or out is not decided here; the        *)
(* properties below read pixels that are off the outlines or hold for any  *)
(* outline.                                                                *)
(***************************************************************************)
NoImage == [size |-> 0, background |-> <<>>, ops |-> <<>>]

\* faulty variant: an opaque black background
ImageNewOpaque(size) == [size |-> size, background |-> <<0, 0, 0, 255>>, ops |-> <<>>]

\* Image.new('RGBA', (size, size), (0, 0, 0, 0))
ImageNew(size) == [size |-> size, background |-> <<0, 0, 0, 0>>, ops |-> <<>>]

\* one ImageDraw call on the canvas
DrawOn(image, op) == [image EXCEPT !.ops = Append(image.ops, op)]

\* the ink of a fill on an RGBA canvas: an RGB triple is opaque
Ink(fill) == IF Len(fill) = 3 THEN fill \o <<255>> ELSE fill

\* pixel (x, y) lies in the inclusive box x0..x1, y0..y1 (pixel units)
InBox(x0, y0, x1, y1, x, y) == x0 <= x /\ x <= x1 /\ y0 <= y /\ y <= y1

\* pixel (x, y) lies in the ellipse inscribed in the inclusive box
InEllipse(x0, y0, x1, y1, x, y) ==
    /\ InBox(x0, y0, x1, y1, x, y)
    /\ LET a  == x1 - x0
           b  == y1 - y0
           dx == 2 * x - x0 - x1
           dy == 2 * y - y0 - y1
       IN  (b * b) * (dx * dx) <= (a * a) * ((b - dy) * (b + dy))

\* pixel (x, y) lies in the rounded rectangle: the box less what the corner
\* circles of radius r cut off
InRounded(x0, y0, x1, y1, r, x, y) ==
    /\ InBox(x0, y0, x1, y1, x, y)
    /\ LET cx == IF x < x0 + r THEN x0 + r ELSE IF x > x1 - r THEN x1 - r ELSE x
           cy == IF y < y0 + r THEN y0 + r ELSE IF y > y1 - r THEN y1 - r ELSE y
       IN  (x - cx) * (x - cx) + (y - cy) * (y - cy) <= r * r

\* pixel (x, y) lies on the arc from 0 to 180 degrees (clockwise from three
\* o'clock: the lower half) of stroke w, drawn inside the box
InLowerArc(x0, y0, x1, y1, w, x, y) ==
    /\ InEllipse(x0, y0, x1, y1, x, y)
    /\ 2 * y >= y0 + y1
    /\ ~ ( /\ x0 + w <= x1 - w
           /\ y0 + w <= y1 - w
           /\ InEllipse(x0 + w, y0 + w, x1 - w, y1 - w, x, y) )

\* the pixels a drawing operation writes
Covers(op, x, y) ==
    LET x0 == CInt(op.xy[1])
        y0 == CInt(op.xy[2])
        x1 == CInt(op.xy[3])
        y1 == CInt(op.xy[4])
    IN  CASE op.kind = "rectangle" -> InBox(x0, y0, x1, y1, x, y)
          [] op.kind = "ellipse"   -> InEllipse(x0, y0, x1, y1, x, y)
          [] op.kind = "rounded_rectangle" ->
                 InRounded(x0, y0, x1, y1, CInt(op.radius), x, y)
          [] op.kind = "arc" ->
                 InLowerArc(x0, y0, x1, y1, CInt(op.width), x, y)

\* the RGBA value of pixel (x, y) of a canvas
PixelAt(image, x, y) ==
    LET hits == { i \in 1..Len(image.ops) : Covers(image.ops[i], x, y) }
    IN  IF hits = {} THEN image.background
        ELSE Ink(image.ops[SetMax(hits)].fill)

Alpha(px) == px[4]

(***************************************************************************)
(* Files.                                                                  *)
(***************************************************************************)
output_dir == "/home/eric/coding/gmanager-glm/apps/desktop/src-tauri/icons"

\* os.path.join(dir, name)
Join(dir, name) == [dir |-> dir, name |-> name]

Absent == [format |-> "absent", images |-> <<>>, sizes |-> <<>>, meta |-> <<>>]

\* a file whose write was cut short by an error
Partial == [format |-> "partial", images |-> <<>>, sizes |-> <<>>, meta |-> <<>>]

\* faulty variant: the file carries a stamp of the run that wrote it
PngContentStamped(image) ==
    [format |-> "PNG", images |-> <<image>>, sizes |-> <<>>, meta |-> <<run>>]

\* img.save(output_path, 'PNG'): the pixels of img and nothing else
PngContent(image) ==
    [format |-> "PNG", images |-> <<image>>, sizes |-> <<>>, meta |-> <<>>]

\* faulty variant: the dimensions collected into a set (unique, ascending)
IcoSizesArgUnique(frames) ==
    LET S == { frames[i].size : i \in 1..Len(frames) }
    IN  [i \in 1..Cardinality(S) |->
            LET s == CHOOSE t \in S : Cardinality({u \in S : u < t}) = i - 1
            IN  <<s, s>>]

\* sizes=[(i.width, i.height) for i in icons]
IcoSizesArg(frames) ==
    [i \in 1..Len(frames) |-> <<frames[i].size, frames[i].size>>]

\* icons[0].save(output_path, format='ICO', sizes=[...]): what the encoder is
\* handed is the image save is called on and the keyword argument
IcoContent(frames) ==
    [format |-> "ICO", images |-> <<frames[1]>>, sizes |-> IcoSizesArg(frames),
     meta |-> <<>>]

(***************************************************************************)
(* The driver's calls, in program order (lines 167-176).                   *)
(***************************************************************************)
\* faulty variant: the ICO built before the PNGs
MainStepsIcoFirst ==
    << [fn |-> "create_ico_file", sizes |-> <<16, 32, 48, 256>>,
        path |-> Join(output_dir, "icon.ico")],
       [fn |-> "create_icon", sizes |-> <<32>>,
        path |-> Join(output_dir, "32x32.png")],
       [fn |-> "create_icon", sizes |-> <<128>>,
        path |-> Join(output_dir, "128x128.png")],
       [fn |-> "create_icon", sizes |-> <<256>>,
        path |-> Join(output_dir, "128x128@2x.png")],
       [fn |-> "create_icon", sizes |-> <<512>>,
        path |-> Join(output_dir, "icon.icns.png")] >>

MainSteps ==
    << [fn |-> "create_icon", sizes |-> <<32>>,
        path |-> Join(output_dir, "32x32.png")],
       [fn |-> "create_icon", sizes |-> <<128>>,
        path |-> Join(output_dir, "128x128.png")],
       [fn |-> "create_icon", sizes |-> <<256>>,
        path |-> Join(output_dir, "128x128@2x.png")],
       [fn |-> "create_ico_file", sizes |-> <<16, 32, 48, 256>>,
        path |-> Join(output_dir, "icon.ico")],
       [fn |-> "create_icon", sizes |-> <<512>>,
        path |-> Join(output_dir, "icon.icns.png")] >>

NoCall == [fn |-> "none", sizes |-> <<>>, path |-> Join("", "")]

\* faulty variant: the exception is caught and the step tried again
RaiseRetry(at) == at

\* where an exception raised at a step takes the run: nothing catches it
Raise(at) == "crashed"

(***************************************************************************)
(* Inputs of the directly entered functions.                               *)
(***************************************************************************)
DriverSizes == {16, 32, 48, 128, 256, 512}

IconInputs == (1..MaxSize) \cup DriverSizes

IcoSizeSet == {16, 32, 48, 256}

SeqsUpTo(S, n) == UNION { [1..m -> S] : m \in 0..n }

IcoInputs ==
    SeqsUpTo(IcoSizeSet, MaxLen)
      \cup { <<16, 32, 48, 256>> }
      \cup { <<s>> : s \in 1..MaxSize }

Paths ==
    { MainSteps[i].path : i \in 1..Len(MainSteps) }
      \cup { Join(".", "out.png"), Join(".", "out.ico") }

(***************************************************************************)
(* Initial states: a fresh process entering main, create_icon or           *)
(* create_ico_file, over an empty set of files.                            *)
(***************************************************************************)
Init ==
    /\ \/ /\ entry = "main"
          /\ call = NoCall
          /\ pc = "makedirs"
          /\ dirExists \in BOOLEAN
       \/ /\ entry = "create_icon"
          /\ \E s \in IconInputs :
                call = [fn |-> "create_icon", sizes |-> <<s>>,
                        path |-> Join(".", "out.png")]
          /\ pc = "new"
          /\ dirExists = FALSE
       \/ /\ entry = "create_ico_file"
          /\ \E q \in IcoInputs :
                call = [fn |-> "create_ico_file", sizes |-> q,
                        path |-> Join(".", "out.ico")]
          /\ pc = "loop"
          /\ dirExists = FALSE
    /\ step = 0
    /\ k = 0
    /\ idx = 1
    /\ img = NoImage
    /\ icons = <<>>
    /\ fs = [p \in Paths |-> Absent]
    /\ writes = [r \in 1..MaxRuns |-> <<>>]
    /\ out = <<>>
    /\ failed = FALSE
    /\ run = 1

Line(msg, arg) == [msg |-> msg, arg |-> arg]

\* where control goes when the called function returns
AfterReturn ==
    IF entry = "main"
    THEN IF step < Len(MainSteps) THEN "call" ELSE "finish"
    ELSE "done"

(***************************************************************************)
(* main (lines 160-179).                                                   *)
(***************************************************************************)
\* os.makedirs(output_dir, exist_ok=True); print("Creating GManager icons...")
MakeDirs ==
    /\ pc = "makedirs"
    /\ dirExists' = TRUE
    /\ out' = Append(out, Line("Creating GManager icons...", <<>>))
    /\ step' = 1
    /\ pc' = "call"
    /\ UNCHANGED <<entry, call, k, idx, img, icons, fs, writes, failed, run>>

\* os.makedirs raises (the directory is absent and cannot be created)
MakeDirsFails ==
    /\ pc = "makedirs"
    /\ ~dirExists
    /\ failed' = TRUE
    /\ pc' = Raise(pc)
    /\ UNCHANGED <<entry, call, step, k, idx, img, icons, fs, dirExists,
                   writes, out, run>>

\* main invokes its next call
Call ==
    /\ pc = "call"
    /\ call' = MainSteps[step]
    /\ pc' = IF MainSteps[step].fn = "create_icon" THEN "new" ELSE "loop"
    /\ icons' = <<>>
    /\ idx' = 1
    /\ UNCHANGED <<entry, step, k, img, fs, dirExists, writes, out, failed,
                   run>>

\* the two closing prints of main
Finish ==
    /\ pc = "finish"
    /\ out' = out \o << Line("Note: icon.icns created as PNG placeholder.", <<>>),
                        Line("All icons created successfully!", <<>>) >>
    /\ pc' = "done"
    /\ UNCHANGED <<entry, call, step, k, idx, img, icons, fs, dirExists,
                   writes, failed, run>>

\* the script is run again, as a new process over the same files
StartRun ==
    /\ entry = "main"
    /\ pc \in {"done", "crashed"}
    /\ run < MaxRuns
    /\ run' = run + 1
    /\ pc' = "makedirs"
    /\ call' = NoCall
    /\ step' = 0
    /\ k' = 0
    /\ idx' = 1
    /\ img' = NoImage
    /\ icons' = <<>>
    /\ out' = <<>>
    /\ failed' = FALSE
    /\ UNCHANGED <<entry, fs, dirExists, writes>>

(***************************************************************************)
(* create_icon (lines 10-84).                                              *)
(***************************************************************************)
\* lines 13-14
NewImage ==
    /\ pc = "new"
    /\ img' = ImageNew(call.sizes[1])
    /\ k' = 1
    /\ pc' = "draw"
    /\ UNCHANGED <<entry, call, step, idx, icons, fs, dirExists, writes, out,
                   failed, run>>

\* the next drawing call of lines 29-80
Draw ==
    /\ pc = "draw"
    /\ img' = DrawOn(img, IconDrawOp(call.sizes[1], k))
    /\ k' = k + 1
    /\ pc' = IF k = NumDraws THEN "save" ELSE "draw"
    /\ UNCHANGED <<entry, call, step, idx, icons, fs, dirExists, writes, out,
                   failed, run>>

\* the write of one file and the print that follows it
Written(content) ==
    /\ fs' = [fs EXCEPT ![call.path] = content]
    /\ writes' = [writes EXCEPT ![run] =
                     Append(@, [path |-> call.path, content |-> content])]
    /\ out' = Append(out, Line("Created", call.path))
    /\ step' = IF entry = "main" /\ step < Len(MainSteps) THEN step + 1 ELSE step
    /\ pc' = AfterReturn

\* the write raises: the file is untouched or left cut short
WriteFails ==
    /\ \E c \in {fs[call.path], Partial} : fs' = [fs EXCEPT ![call.path] = c]
    /\ failed' = TRUE
    /\ pc' = Raise(pc)
    /\ UNCHANGED <<writes, out, step>>

\* lines 83-84
Save ==
    /\ pc = "save"
    /\ Written(PngContent(img))
    /\ UNCHANGED <<entry, call, k, idx, img, icons, dirExists, failed, run>>

SaveFails ==
    /\ pc = "save"
    /\ WriteFails
    /\ UNCHANGED <<entry, call, k, idx, img, icons, dirExists, run>>

(***************************************************************************)
(* create_ico_file (lines 87-157).                                         *)
(***************************************************************************)
\* for size in sizes: lines 92-93
IcoNewImage ==
    /\ pc = "loop"
    /\ idx <= Len(call.sizes)
    /\ img' = ImageNew(call.sizes[idx])
    /\ k' = 1
    /\ pc' = "ico_draw"
    /\ UNCHANGED <<entry, call, step, idx, icons, fs, dirExists, writes, out,
                   failed, run>>

\* the next drawing call of lines 105-151
IcoDraw ==
    /\ pc = "ico_draw"
    /\ img' = DrawOn(img, IcoDrawOp(call.sizes[idx], k))
    /\ k' = k + 1
    /\ pc' = IF k = NumDraws THEN "ico_append" ELSE "ico_draw"
    /\ UNCHANGED <<entry, call, step, idx, icons, fs, dirExists, writes, out,
                   failed, run>>

\* icons.append(img)
IcoAppend ==
    /\ pc = "ico_append"
    /\ icons' = Append(icons, img)
    /\ idx' = idx + 1
    /\ pc' = "loop"
    /\ UNCHANGED <<entry, call, step, k, img, fs, dirExists, writes, out,
                   failed, run>>

\* the loop is exhausted
IcoLoopEnd ==
    /\ pc = "loop"
    /\ idx > Len(call.sizes)
    /\ pc' = "ico_save"
    /\ UNCHANGED <<entry, call, step, k, idx, img, icons, fs, dirExists,
                   writes, out, failed, run>>

\* lines 156-157
IcoSave ==
    /\ pc = "ico_save"
    /\ icons # <<>>
    /\ Written(IcoContent(icons))
    /\ UNCHANGED <<entry, call, k, idx, img, icons, dirExists, failed, run>>

\* icons[0] of an empty list: IndexError
IcoSaveNoFrame ==
    /\ pc = "ico_save"
    /\ icons = <<>>
    /\ failed' = TRUE
    /\ pc' = Raise(pc)
    /\ UNCHANGED <<entry, call, step, k, idx, img, icons, fs, dirExists,
                   writes, out, run>>

IcoSaveFails ==
    /\ pc = "ico_save"
    /\ icons # <<>>
    /\ WriteFails
    /\ UNCHANGED <<entry, call, k, idx, img, icons, dirExists, run>>

Next ==
    \/ MakeDirs
    \/ MakeDirsFails
    \/ Call
    \/ Finish
    \/ StartRun
    \/ NewImage
    \/ Draw
    \/ Save
    \/ SaveFails
    \/ IcoNewImage
    \/ IcoDraw
    \/ IcoAppend
    \/ IcoLoopEnd
    \/ IcoSave
    \/ IcoSaveNoFrame
    \/ IcoSaveFails

Spec == Init /\ [][Next]_vars

(***************************************************************************)
(* Vocabulary of the properties.                                           *)
(***************************************************************************)
\* the canvas create_icon has composed for a size when it reaches its save
IconCanvas(size) ==
    [size |-> size, background |-> ImageNew(size).background,
     ops |-> [n \in 1..NumDraws |-> IconDrawOp(size, n)]]

\* create_icon has finished drawing and is about to save
IconFinished == pc = "save"

\* one iteration of the packer's loop has finished drawing its frame
FrameFinished == pc = "ico_append"

\* create_ico_file has saved and returned
IcoSaved ==
    /\ call.fn = "create_ico_file"
    /\ pc \in {"call", "finish", "done"}

SuccessLine == Line("All icons created successfully!", <<>>)

Printed(l) == \E i \in 1..Len(out) : out[i] = l

\* name, format and rendered sizes of one write
Summary(w) ==
    << w.path.name, w.content.format,
       IF w.content.format = "ICO"
       THEN [i \in 1..Len(w.content.sizes) |-> w.content.sizes[i][1]]
       ELSE [i \in 1..Len(w.content.images) |-> w.content.images[i].size] >>

ExpectedWrites ==
    << << "32x32.png", "PNG", <<32>> >>,
       << "128x128.png", "PNG", <<128>> >>,
       << "128x128@2x.png", "PNG", <<256>> >>,
       << "icon.ico", "ICO", <<16, 32, 48, 256>> >>,
       << "icon.icns.png", "PNG", <<512>> >> >>

\* the numbers one drawing operation was handed
Integral123(op) ==
    /\ IsIntegral(op.xy[1])
    /\ IsIntegral(op.xy[2])
    /\ IsIntegral(op.xy[3])
    /\ IsIntegral(op.radius)
    /\ IsIntegral(op.width)

C2_AllFramesHanded ==
    IcoSaved =>
       \A i \in 1..Len(icons) :
          \E j \in 1..Len(fs[call.path].images) :
             fs[call.path].images[j] = icons[i]

(***************************************************************************)
(* C3.  As claimed: for every size of {16,32,48,128,256,512} the pixel at  *)
(* the canvas center (s//2, s//2) has alpha 255 and is not white.          *)
(***************************************************************************)
C3_CenterNotWhite ==
    (IconFinished /\ img.size \in DriverSizes) =>
       LET px == PixelAt(img, img.size \div 2, img.size \div 2)
       IN  Alpha(px) = 255 /\ px # Ink(white)

(***************************************************************************)
(* C3, as amended.  For every size of {16,32,48,128,256,512} the pixel at  *)
(* the canvas center has alpha 255 and is white: the keyhole circle covers *)
(* it.                                                                     *)
(***************************************************************************)
C3_CenterIsKeyhole ==
    (IconFinished /\ img.size \in DriverSizes) =>
       LET px == PixelAt(img, img.size \div 2, img.size \div 2)
       IN  /\ Alpha(px) = 255
           /\ px = <<255, 255, 255, 255>>
           /\ \E i \in 1..Len(img.ops) :
                 /\ img.ops[i].kind = "ellipse"
                 /\ Covers(img.ops[i], img.size \div 2, img.size \div 2)

C3_Witness ==
    /\ IconFinished
    /\ img.size = 32
    /\ PixelAt(img, 16, 16) = <<255, 255, 255, 255>>
    /\ Alpha(PixelAt(img, 1, 1)) = 0

(***************************************************************************)
(* C4.  For every size s >= 20 the four corner pixels of the rendered      *)
(* canvas have alpha 0.                                                    *)
(***************************************************************************)
C4_CornersTransparent ==
    ((IconFinished \/ FrameFinished) /\ img.size >= 20) =>
       \A x \in {0, img.size - 1} : \A y \in {0, img.size - 1} :
          Alpha(PixelAt(img, x, y)) = 0

C4_Witness ==
    /\ IconFinished
    /\ img.size = 20
    /\ Len(img.ops) = NumDraws
    /\ Alpha(PixelAt(img, 19, 19)) = 0
    /\ Alpha(PixelAt(img, 10, 10)) = 255

(***************************************************************************)
(* C5.  The frame the packer renders for a size is the canvas create_icon  *)
(* renders for that size: the same background and the same drawing         *)
(* operations, with the same arguments and colours, in the same order.     *)
(***************************************************************************)
C5_FrameIsIcon ==
    /\ IconFinished => img = IconCanvas(call.sizes[1])
    /\ \A i \in 1..Len(icons) : icons[i] = IconCanvas(call.sizes[i])
    /\ FrameFinished =>
          \A x \in {0, img.size \div 3, img.size \div 2, img.size - 1} :
             \A y \in {0, img.size \div 8, img.size \div 2, img.size - 1} :
                PixelAt(img, x, y) = PixelAt(IconCanvas(img.size), x, y)

C5_Witness ==
    /\ entry = "main"
    /\ Len(icons) = 4
    /\ icons[4].size = 256
    /\ icons[4] = fs[MainSteps[3].path].images[1]

(***************************************************************************)
(* C6.  A run of main creates the directory first and then writes exactly  *)
(* 32x32.png (32), 128x128.png (128), 128x128@2x.png (256), icon.ico       *)
(* (16,32,48,256) and icon.icns.png (512), in this order, all in the       *)
(* output directory; a run without error has written all five.            *)
(***************************************************************************)
C6_FiveWritesInOrder ==
    entry = "main" =>
       /\ Len(writes[run]) <= Len(ExpectedWrites)
       /\ \A i \in 1..Len(writes[run]) :
             /\ Summary(writes[run][i]) = ExpectedWrites[i]
             /\ writes[run][i].path.dir = output_dir
       /\ Len(writes[run]) > 0 =>
             /\ dirExists
             /\ out[1] = Line("Creating GManager icons...", <<>>)
       /\ pc \in {"finish", "done"} => Len(writes[run]) = Len(ExpectedWrites)

C6_Witness ==
    /\ entry = "main"
    /\ pc = "done"
    /\ run = 1
    /\ Len(writes[1]) = 5

(***************************************************************************)
(* C7.  Two runs of the driver write the same content to each PNG path.    *)
(***************************************************************************)
C7_RunsAgree ==
    \A r1 \in 1..MaxRuns : \A r2 \in 1..MaxRuns :
       \A i \in 1..Len(writes[r1]) : \A j \in 1..Len(writes[r2]) :
          ( /\ writes[r1][i].path = writes[r2][j].path
            /\ writes[r1][i].content.format = "PNG" )
          => writes[r1][i].content = writes[r2][j].content

C7_Witness ==
    /\ entry = "main"
    /\ run = 2
    /\ pc = "done"
    /\ Len(writes[1]) = 5
    /\ Len(writes[2]) = 5

(***************************************************************************)
(* C8.  An error in makedirs or in a write ends the run: the run is        *)
(* crashed, the success message is not printed, the step that failed adds  *)
(* no write and touches no other file, and from then on the run writes     *)
(* nothing more (only a new run follows).                                  *)
(***************************************************************************)
C8_ErrorEndsRun ==
    /\ [](failed =>
             /\ pc = "crashed"
             /\ ~Printed(SuccessLine)
             /\ entry = "main" => Len(writes[run]) < Len(MainSteps))
    /\ [][(~failed /\ failed') =>
             /\ writes' = writes
             /\ out' = out
             /\ \A p \in Paths \ {call.path} : fs'[p] = fs[p]]_vars
    /\ [][failed =>
             /\ fs' = fs
             /\ writes' = writes
             /\ run' = run + 1]_vars

C8_Witness ==
    /\ entry = "main"
    /\ failed
    /\ pc = "crashed"
    /\ Len(writes[run]) = 2
    /\ fs[MainSteps[1].path].format = "PNG"
    /\ fs[MainSteps[3].path].format = "partial"
    /\ fs[MainSteps[4].path].format = "absent"

(***************************************************************************)
(* C9.  As claimed: every number handed to a drawing operation is an       *)
(* integer.                                                                *)
(***************************************************************************)
C9_AllIntegers ==
    \A i \in 1..Len(img.ops) :
       Integral123(img.ops[i]) /\ IsIntegral(img.ops[i].xy[4])

(***************************************************************************)
(* C9, as amended.  Every number handed to a drawing operation is an       *)
(* integer, except the bottom of the keyhole stem rectangle, center_y +    *)
(* keyhole_radius * 1.5: a float, whole only when size // 12 is even.      *)
(***************************************************************************)
C9_IntegersButStem ==
    \A i \in 1..Len(img.ops) :
       /\ Integral123(img.ops[i])
       /\ img.ops[i].kind # "rectangle" => IsIntegral(img.ops[i].xy[4])
       /\ img.ops[i].kind = "rectangle" =>
             (IsIntegral(img.ops[i].xy[4]) <=> (img.size \div 12) % 2 = 0)

C9_Witness ==
    /\ IconFinished
    /\ img.size = 16
    /\ img.ops[5].kind = "rectangle"
    /\ img.ops[5].xy[4] = 19
    /\ Integral123(img.ops[5])

(***************************************************************************)
(* C10.  In the finished canvas every pixel the badge rectangle covers is  *)
(* opaque, primary blue or white, and a pixel holds the shadow fill only   *)
(* where the shadow rectangle covers it and no other shape does.           *)
(***************************************************************************)
C10_BadgeOverShadow ==
    (IconFinished /\ img.size <= MaxSize) =>
       \A x \in 0..(img.size - 1) : \A y \in 0..(img.size - 1) :
          LET px == PixelAt(img, x, y)
              covering == { i \in 1..Len(img.ops) : Covers(img.ops[i], x, y) }
          IN  /\ (\E i \in covering : img.ops[i].fill = bg_color) =>
                    px \in { Ink(bg_color), Ink(white) }
              /\ px = shadow_fill =>
                    /\ covering # {}
                    /\ \A i \in covering : img.ops[i].fill = shadow_fill

C10_Witness ==
    /\ IconFinished
    /\ img.size = 40
    /\ PixelAt(img, 37, 20) = shadow_fill
    /\ Covers(img.ops[1], 10, 20)
    /\ Covers(img.ops[2], 10, 20)
    /\ PixelAt(img, 10, 20) = Ink(bg_color)

====
